---- MODULE Spec2Model ----
(***************************************************************************)
(* Model of the coordinate resolver of crispy/crisp.py: CRISP.wave,        *)
(* CRISP.to_lonlat and CRISP.from_lonlat, together with the observation    *)
(* state they read (the data rank, the slicing state `ind`, the axis count *)
(* of the original transform `_wcs`).                                      *)
(*                                                                         *)
(* The coordinate transform is the astropy WCS the code calls.  It is      *)
(* modelled by what the calls of the code do: item access builds a sliced  *)
(* view of the transform, array_index_to_world / world_to_array_index      *)
(* evaluate the view on the axes it keeps, and `<< unit` converts a        *)
(* quantity (and fails on an incompatible unit).  Python positions are     *)
(* 0-based, sequences here are 1-based: ind[1] of the code is ind[2] here, *)
(* ind[-1] is ind[Len(ind)].                                               *)
(***************************************************************************)
EXTENDS Integers, Sequences, FiniteSets, TLC

\* Largest number of axes of a loaded cube (the code supports ranks 1..4).
MaxAxes == 5
\* Length of every axis of a loaded cube.
AxisLen == 2

VARIABLES obs, call
vars == <<obs, call>>

(***************************************************************************)
(* Selectors: the entries of a slicing item, an integer or a slice.        *)
(***************************************************************************)
Idx(k) == [kind |-> "index", start |-> k, stop |-> k + 1]
Rng(a, b) == [kind |-> "range", start |-> a, stop |-> b]
\* type(s) == slice
IsSlice(s) == s.kind = "range"
\* the item `:` on an axis of a loaded cube
FullSel == Rng(0, AxisLen)
\* the selectors a slicing item is drawn from: k, and a: (with 0: being `:`)
Selectors == {Idx(k) : k \in 0..(AxisLen - 1)} \cup {Rng(a, AxisLen) : a \in 0..(AxisLen - 1)}

(***************************************************************************)
(* Quantities and unit conversion (astropy.units).  A quantity is          *)
(* val * 10^exp in `unit`; unit "" is a bare number.                       *)
(***************************************************************************)
Qty(v, e, u) == [val |-> v, exp |-> e, unit |-> u]
Ok(s) == [err |-> "", val |-> s]
Fail(e) == [err |-> e, val |-> <<>>]

Convertible(q, u) ==
    \/ q.unit = u
    \/ q.unit = ""
    \/ q.unit = "m" /\ u = "Angstrom"
    \/ q.unit = "Angstrom" /\ u = "m"
    \/ q.unit = "deg" /\ u = "arcsec"
    \/ q.unit = "arcsec" /\ u = "deg"

\* q << u for one quantity: 1 m = 10^10 Angstrom, 1 deg = 3600 arcsec; a
\* bare number gets the unit attached.
Convert(q, u) ==
    CASE q.unit = u -> q
      [] q.unit = "" -> Qty(q.val, q.exp, u)
      [] q.unit = "m" /\ u = "Angstrom" -> Qty(q.val, q.exp + 10, u)
      [] q.unit = "Angstrom" /\ u = "m" -> Qty(q.val, q.exp - 10, u)
      [] q.unit = "deg" /\ u = "arcsec" -> Qty(q.val * 3600, q.exp, u)
      [] q.unit = "arcsec" /\ u = "deg" -> Qty(q.val \div 3600, q.exp, u)
      [] OTHER -> q

\* r << u for the result of a transform call: every component is converted,
\* an incompatible unit raises.
Shift(r, u) ==
    IF r.err # "" THEN r
    ELSE IF \A i \in 1..Len(r.val) : Convertible(r.val[i], u)
         THEN Ok([i \in 1..Len(r.val) |-> Convert(r.val[i], u)])
         ELSE Fail("UnitConversionError")

(***************************************************************************)
(* The transform.  A view is the original transform of naxis axes with one *)
(* selector per axis; the axes whose selector is a range are kept.         *)
(***************************************************************************)
View(n, s) == [naxis |-> n, sels |-> s]
NoView == View(0, <<>>)
Unsliced(n) == View(n, [p \in 1..n |-> FullSel])

Kept(t) == {p \in 1..t.naxis : IsSlice(t.sels[p])}
Positions(n) == [p \in 1..n |-> p]
KeptSeq(t) == SelectSeq(Positions(t.naxis), LAMBDA p : IsSlice(t.sels[p]))
\* low_level_wcs.array_shape
array_shape(t) == [i \in 1..Len(KeptSeq(t)) |-> t.sels[KeptSeq(t)[i]].stop - t.sels[KeptSeq(t)[i]].start]

\* which argument of a call addresses position p
ArgPos(t, p) == Cardinality({q \in 1..p : IsSlice(t.sels[q])})

\* Compose with an integer item k taken as the slice k:k+1, which keeps the
\* axis
Compose_keepdim(s, it) ==
    IF IsSlice(it)
    THEN Rng(s.start + it.start, IF s.start + it.stop < s.stop THEN s.start + it.stop ELSE s.stop)
    ELSE Rng(s.start + it.start, s.start + it.start + 1)

\* t[items]: the items address the kept axes of t in order, missing items
\* are `:`; an integer item fixes the axis, a slice item offsets it.
Compose(s, it) ==
    IF IsSlice(it)
    THEN Rng(s.start + it.start, IF s.start + it.stop < s.stop THEN s.start + it.stop ELSE s.stop)
    ELSE Idx(s.start + it.start)
Sub(t, items) ==
    View(t.naxis,
         [p \in 1..t.naxis |->
            IF IsSlice(t.sels[p]) /\ ArgPos(t, p) <= Len(items)
            THEN Compose(t.sels[p], items[ArgPos(t, p)])
            ELSE t.sels[p]])

\* axis order of a cube: (wavelength), (y, x), (wavelength, y, x),
\* (stokes, wavelength, y, x); further leading axes are "other".
AxisKind(n, p) ==
    IF n = 1 THEN "wave"
    ELSE CASE n - p = 0 -> "x"
           [] n - p = 1 -> "y"
           [] n - p = 2 -> "wave"
           [] n - p = 3 -> "stokes"
           [] OTHER -> "other"
PosOf(n, kind) ==
    CASE kind = "x" -> n
      [] kind = "y" -> n - 1
      [] kind = "wave" -> IF n = 1 THEN 1 ELSE n - 2
      [] kind = "stokes" -> n - 3
      [] OTHER -> n - 4

\* index along the original axis at position p for the call arguments args
Pixel(t, args, p) ==
    IF IsSlice(t.sels[p]) THEN t.sels[p].start + args[ArgPos(t, p)] ELSE t.sels[p].start

\* world axes of a view: those of its kept axes; longitude and latitude come
\* as a pair as soon as x or y is kept.
WorldKinds(t) ==
    LET K == {AxisKind(t.naxis, p) : p \in Kept(t)}
    IN SelectSeq(<<"lon", "lat", "wave", "stokes", "other">>,
                 LAMBDA w : IF w \in {"lon", "lat"} THEN K \cap {"x", "y"} # {} ELSE w \in K)

\* the sample cube: longitude 10 + 2 x deg, latitude -5 + 3 y deg,
\* wavelength (85420 + w) * 10^-11 m, i.e. 8542.0 + 0.1 w Angstrom.
World(t, args, w) ==
    CASE w = "lon" -> Qty(10 + 2 * Pixel(t, args, PosOf(t.naxis, "x")), 0, "deg")
      [] w = "lat" -> Qty(3 * Pixel(t, args, PosOf(t.naxis, "y")) - 5, 0, "deg")
      [] w = "wave" -> Qty(85420 + Pixel(t, args, PosOf(t.naxis, "wave")), -11, "m")
      [] w = "stokes" -> Qty(1 + Pixel(t, args, PosOf(t.naxis, "stokes")), 0, "stokes")
      [] OTHER -> Qty(Pixel(t, args, PosOf(t.naxis, "other")), 0, "s")

\* t.array_index_to_world(*args)
array_index_to_world(t, args) ==
    IF Len(args) # Cardinality(Kept(t)) THEN Fail("TypeError")
    ELSE Ok([i \in 1..Len(WorldKinds(t)) |-> World(t, args, WorldKinds(t)[i])])

NativeUnit(w) ==
    CASE w \in {"lon", "lat"} -> "deg"
      [] w = "wave" -> "m"
      [] w = "stokes" -> "stokes"
      [] OTHER -> "s"
IndexIn(s, e) == CHOOSE i \in 1..Len(s) : s[i] = e

\* index along the original axis of the given kind for world values wv
\* (in native units), the inverse of World
PixelOf(t, wv, kind) ==
    LET W == WorldKinds(t)
    IN CASE kind = "x" -> (wv[IndexIn(W, "lon")].val - 10) \div 2
         [] kind = "y" -> (wv[IndexIn(W, "lat")].val + 5) \div 3
         [] kind = "wave" -> wv[IndexIn(W, "wave")].val - 85420
         [] kind = "stokes" -> wv[IndexIn(W, "stokes")].val - 1
         [] OTHER -> wv[IndexIn(W, "other")].val

\* t.world_to_array_index(*wargs): array indices along the kept axes
world_to_array_index(t, wargs) ==
    LET W == WorldKinds(t)
        K == KeptSeq(t)
    IN IF Len(wargs) # Len(W) THEN Fail("TypeError")
       ELSE IF \E i \in 1..Len(W) : ~Convertible(wargs[i], NativeUnit(W[i]))
            THEN Fail("UnitConversionError")
       ELSE LET wv == [i \in 1..Len(W) |-> Convert(wargs[i], NativeUnit(W[i]))]
            IN Ok([i \in 1..Len(K) |->
                     PixelOf(t, wv, AxisKind(t.naxis, K[i])) - t.sels[K[i]].start])

(***************************************************************************)
(* The observation.                                                        *)
(***************************************************************************)
\* self.wcs.low_level_wcs._wcs, the original transform
Parent(o) == Unsliced(o.naxis)
\* self.wcs, the transform of the observation itself
Own(o) == IF o.hasInd THEN Sub(Parent(o), o.ind) ELSE Parent(o)
\* the rank read off the data array, with a fully masked array counted as
\* holding nothing
Rank_data(o) == IF o.data = "nan" THEN 0 ELSE Len(array_shape(Own(o)))
\* len(self.wcs.low_level_wcs.array_shape)
Rank(o) == Len(array_shape(Own(o)))

\* what a call hands back: the exception it ends with ("" if it returns),
\* the returned components, the view it evaluated, and whether it printed
Returned(t, r, n) == [err |-> r.err, val |-> r.val, sub |-> t, notice |-> n]
Raised(e) == [err |-> e, val |-> <<>>, sub |-> NoView, notice |-> FALSE]

(***************************************************************************)
(* CRISP.wave                                                              *)
(***************************************************************************)
\* <view>.array_index_to_world(idx) << u.Angstrom
WaveOf(t, idx) == Returned(t, Shift(array_index_to_world(t, <<idx>>), "Angstrom"), FALSE)

\* wave_rank4 with the slicing state's range forgotten: always the full
\* wavelength axis
wave_rank4_full(o, idx) ==
    IF o.hasInd
    THEN WaveOf(Sub(Parent(o), <<Idx(0), FullSel, Idx(0), Idx(0)>>), idx)
    ELSE WaveOf(Sub(Own(o), <<Idx(0), FullSel, Idx(0), Idx(0)>>), idx)

\* the branch len(array_shape) == 4
wave_rank4(o, idx) ==
    IF o.hasInd /\ IsSlice(o.ind[2])
    THEN WaveOf(Sub(Parent(o), <<Idx(0), o.ind[2], Idx(0), Idx(0)>>), idx)
    ELSE IF o.hasInd /\ ~IsSlice(o.ind[2])
    THEN WaveOf(Sub(Parent(o), <<Idx(0), FullSel, Idx(0), Idx(0)>>), idx)
    ELSE WaveOf(Sub(Own(o), <<Idx(0), FullSel, Idx(0), Idx(0)>>), idx)

\* wave_rank3 without the test for a 4-axis parent: always the
\* (wavelength, y, x) form
wave_rank3_native(o, idx) ==
    IF o.hasInd /\ IsSlice(o.ind[1])
    THEN WaveOf(Sub(Parent(o), <<o.ind[1], Idx(0), Idx(0)>>), idx)
    ELSE IF o.hasInd /\ ~IsSlice(o.ind[1])
    THEN WaveOf(Sub(Parent(o), <<FullSel, Idx(0), Idx(0)>>), idx)
    ELSE WaveOf(Sub(Own(o), <<FullSel, Idx(0), Idx(0)>>), idx)

\* the branch len(array_shape) == 3
wave_rank3(o, idx) ==
    IF o.hasInd /\ o.naxis = 4
    THEN IF IsSlice(o.ind[2])
         THEN WaveOf(Sub(Parent(o), <<Idx(0), o.ind[2], Idx(0), Idx(0)>>), idx)
         ELSE WaveOf(Sub(Parent(o), <<Idx(0), FullSel, Idx(0), Idx(0)>>), idx)
    ELSE IF o.hasInd /\ IsSlice(o.ind[1])
         THEN WaveOf(Sub(Parent(o), <<o.ind[1], Idx(0), Idx(0)>>), idx)
         ELSE IF o.hasInd /\ ~IsSlice(o.ind[1])
         THEN WaveOf(Sub(Parent(o), <<FullSel, Idx(0), Idx(0)>>), idx)
         ELSE WaveOf(Sub(Own(o), <<FullSel, Idx(0), Idx(0)>>), idx)

\* wave_rank2 with the two forms swapped between the parents
wave_rank2_swapped(o, idx) ==
    IF o.hasInd
    THEN IF o.naxis = 3
         THEN WaveOf(Sub(Parent(o), <<Idx(0), FullSel, Idx(0), Idx(0)>>), idx)
         ELSE IF o.naxis = 4
         THEN WaveOf(Sub(Parent(o), <<FullSel, Idx(0), Idx(0)>>), idx)
         ELSE Raised("IndexError")
    ELSE Raised("IndexError")

\* wave_rank2 without the final raise: every parent that is not 4-axis is
\* taken for a 3-axis one
wave_rank2_noraise(o, idx) ==
    IF o.hasInd
    THEN IF o.naxis = 4
         THEN WaveOf(Sub(Parent(o), <<Idx(0), FullSel, Idx(0), Idx(0)>>), idx)
         ELSE WaveOf(Sub(Parent(o), <<FullSel, Idx(0), Idx(0)>>), idx)
    ELSE Raised("IndexError")

\* the branch len(array_shape) == 2
wave_rank2(o, idx) ==
    IF o.hasInd
    THEN IF o.naxis = 4
         THEN WaveOf(Sub(Parent(o), <<Idx(0), FullSel, Idx(0), Idx(0)>>), idx)
         ELSE IF o.naxis = 3
         THEN WaveOf(Sub(Parent(o), <<FullSel, Idx(0), Idx(0)>>), idx)
         ELSE Raised("IndexError")
    ELSE Raised("IndexError")

\* wave_rank1 on the full wavelength axis of the original transform, as the
\* rank-2 branch does, instead of the observation's own transform
wave_rank1_parent(o, idx) ==
    Returned(Sub(Parent(o), [p \in 1..o.naxis |-> IF AxisKind(o.naxis, p) = "wave" THEN FullSel ELSE Idx(0)]),
             Shift(array_index_to_world(
                       Sub(Parent(o), [p \in 1..o.naxis |-> IF AxisKind(o.naxis, p) = "wave" THEN FullSel ELSE Idx(0)]),
                       <<idx>>), "Angstrom"),
             TRUE)

\* the branch len(array_shape) == 1: print, then the transform of the
\* observation itself
wave_rank1(o, idx) ==
    Returned(Own(o), Shift(array_index_to_world(Own(o), <<idx>>), "Angstrom"), TRUE)

\* wave without the rank-1 branch
wave_norank1(o, idx) ==
    IF Rank(o) = 4 THEN wave_rank4(o, idx)
    ELSE IF Rank(o) = 3 THEN wave_rank3(o, idx)
    ELSE IF Rank(o) = 2 THEN wave_rank2(o, idx)
    ELSE Raised("NotImplementedError")

wave(o, idx) ==
    IF Rank(o) = 4 THEN wave_rank4(o, idx)
    ELSE IF Rank(o) = 3 THEN wave_rank3(o, idx)
    ELSE IF Rank(o) = 2 THEN wave_rank2(o, idx)
    ELSE IF Rank(o) = 1 THEN wave_rank1(o, idx)
    ELSE Raised("NotImplementedError")

(***************************************************************************)
(* CRISP.to_lonlat                                                         *)
(***************************************************************************)
\* <view>.array_index_to_world(y,x) << u.arcsec
LonLatOf(t, y, x) == Returned(t, Shift(array_index_to_world(t, <<y, x>>), "arcsec"), FALSE)

\* to_lonlat_rank4 with the slicing state ignored
to_lonlat_rank4_noind(o, y, x) ==
    IF o.hasInd
    THEN LonLatOf(Sub(Parent(o), <<Idx(0), Idx(0)>>), y, x)
    ELSE LonLatOf(Sub(Own(o), <<Idx(0), Idx(0)>>), y, x)

\* the branch len(array_shape) == 4
to_lonlat_rank4(o, y, x) ==
    IF o.hasInd
    THEN IF IsSlice(o.ind[Len(o.ind) - 1]) /\ IsSlice(o.ind[Len(o.ind)])
         THEN LonLatOf(Sub(Parent(o), <<Idx(0), Idx(0), o.ind[Len(o.ind) - 1], o.ind[Len(o.ind)]>>), y, x)
         ELSE IF IsSlice(o.ind[Len(o.ind) - 1]) /\ ~IsSlice(o.ind[Len(o.ind)])
         THEN LonLatOf(Sub(Parent(o), <<Idx(0), Idx(0), o.ind[Len(o.ind) - 1]>>), y, x)
         ELSE IF ~IsSlice(o.ind[Len(o.ind) - 1]) /\ IsSlice(o.ind[Len(o.ind)])
         THEN LonLatOf(Sub(Parent(o), <<Idx(0), Idx(0), FullSel, o.ind[Len(o.ind)]>>), y, x)
         ELSE LonLatOf(Sub(Parent(o), <<Idx(0), Idx(0)>>), y, x)
    ELSE LonLatOf(Sub(Own(o), <<Idx(0), Idx(0)>>), y, x)

\* the branch len(array_shape) == 3
to_lonlat_rank3(o, y, x) ==
    IF o.hasInd /\ o.naxis = 4
    THEN IF IsSlice(o.ind[Len(o.ind) - 1]) /\ IsSlice(o.ind[Len(o.ind)])
         THEN LonLatOf(Sub(Parent(o), <<Idx(0), Idx(0), o.ind[Len(o.ind) - 1], o.ind[Len(o.ind)]>>), y, x)
         ELSE IF IsSlice(o.ind[Len(o.ind) - 1]) /\ ~IsSlice(o.ind[Len(o.ind)])
         THEN LonLatOf(Sub(Parent(o), <<Idx(0), Idx(0), o.ind[Len(o.ind) - 1]>>), y, x)
         ELSE IF ~IsSlice(o.ind[Len(o.ind) - 1]) /\ IsSlice(o.ind[Len(o.ind)])
         THEN LonLatOf(Sub(Parent(o), <<Idx(0), Idx(0), FullSel, o.ind[Len(o.ind)]>>), y, x)
         ELSE LonLatOf(Sub(Parent(o), <<Idx(0), Idx(0)>>), y, x)
    ELSE IF o.hasInd
         THEN IF IsSlice(o.ind[Len(o.ind) - 1]) /\ IsSlice(o.ind[Len(o.ind)])
              THEN LonLatOf(Sub(Parent(o), <<Idx(0), o.ind[Len(o.ind) - 1], o.ind[Len(o.ind)]>>), y, x)
              ELSE IF IsSlice(o.ind[Len(o.ind) - 1]) /\ ~IsSlice(o.ind[Len(o.ind)])
              THEN LonLatOf(Sub(Parent(o), <<Idx(0), o.ind[Len(o.ind) - 1]>>), y, x)
              ELSE IF ~IsSlice(o.ind[Len(o.ind) - 1]) /\ IsSlice(o.ind[Len(o.ind)])
              THEN LonLatOf(Sub(Parent(o), <<Idx(0), FullSel, o.ind[Len(o.ind)]>>), y, x)
              ELSE LonLatOf(Sub(Parent(o), <<Idx(0)>>), y, x)
         ELSE LonLatOf(Sub(Own(o), <<Idx(0)>>), y, x)

\* to_lonlat_rank2 on the original transform restricted to [0, 0], as the
\* rank-4 branch does
to_lonlat_rank2_parent(o, y, x) == LonLatOf(Sub(Parent(o), <<Idx(0), Idx(0)>>), y, x)

\* the branch len(array_shape) == 2: the transform of the observation itself
to_lonlat_rank2(o, y, x) == LonLatOf(Own(o), y, x)

\* to_lonlat with a rank-1 branch on the observation's own transform
to_lonlat_rank1too(o, y, x) ==
    IF Rank(o) = 4 THEN to_lonlat_rank4(o, y, x)
    ELSE IF Rank(o) = 3 THEN to_lonlat_rank3(o, y, x)
    ELSE IF Rank(o) = 2 THEN to_lonlat_rank2(o, y, x)
    ELSE IF Rank(o) = 1 THEN LonLatOf(Own(o), y, x)
    ELSE Raised("NotImplementedError")

to_lonlat(o, y, x) ==
    IF Rank(o) = 4 THEN to_lonlat_rank4(o, y, x)
    ELSE IF Rank(o) = 3 THEN to_lonlat_rank3(o, y, x)
    ELSE IF Rank(o) = 2 THEN to_lonlat_rank2(o, y, x)
    ELSE Raised("NotImplementedError")

(***************************************************************************)
(* CRISP.from_lonlat                                                       *)
(***************************************************************************)
\* IndexOf with the two world coordinates handed over in the wrong order
IndexOf_swapped(t, lon, lat) == Returned(t, world_to_array_index(t, <<lat, lon>>), FALSE)

\* <view>.world_to_array_index(lon,lat)
IndexOf(t, lon, lat) == Returned(t, world_to_array_index(t, <<lon, lat>>), FALSE)

\* the branch len(array_shape) == 4
from_lonlat_rank4(o, lon, lat) ==
    IF o.hasInd
    THEN IF IsSlice(o.ind[Len(o.ind) - 1]) /\ IsSlice(o.ind[Len(o.ind)])
         THEN IndexOf(Sub(Parent(o), <<Idx(0), Idx(0), o.ind[Len(o.ind) - 1], o.ind[Len(o.ind)]>>), lon, lat)
         ELSE IF IsSlice(o.ind[Len(o.ind) - 1]) /\ ~IsSlice(o.ind[Len(o.ind)])
         THEN IndexOf(Sub(Parent(o), <<Idx(0), Idx(0), o.ind[Len(o.ind) - 1]>>), lon, lat)
         ELSE IF ~IsSlice(o.ind[Len(o.ind) - 1]) /\ IsSlice(o.ind[Len(o.ind)])
         THEN IndexOf(Sub(Parent(o), <<Idx(0), Idx(0), FullSel, o.ind[Len(o.ind)]>>), lon, lat)
         ELSE IndexOf(Sub(Parent(o), <<Idx(0), Idx(0)>>), lon, lat)
    ELSE IndexOf(Sub(Own(o), <<Idx(0), Idx(0)>>), lon, lat)

\* the branch len(array_shape) == 3
from_lonlat_rank3(o, lon, lat) ==
    IF o.hasInd /\ o.naxis = 4
    THEN IF IsSlice(o.ind[Len(o.ind) - 1]) /\ IsSlice(o.ind[Len(o.ind)])
         THEN IndexOf(Sub(Parent(o), <<Idx(0), Idx(0), o.ind[Len(o.ind) - 1], o.ind[Len(o.ind)]>>), lon, lat)
         ELSE IF IsSlice(o.ind[Len(o.ind) - 1]) /\ ~IsSlice(o.ind[Len(o.ind)])
         THEN IndexOf(Sub(Parent(o), <<Idx(0), Idx(0), o.ind[Len(o.ind) - 1]>>), lon, lat)
         ELSE IF ~IsSlice(o.ind[Len(o.ind) - 1]) /\ IsSlice(o.ind[Len(o.ind)])
         THEN IndexOf(Sub(Parent(o), <<Idx(0), Idx(0), FullSel, o.ind[Len(o.ind)]>>), lon, lat)
         ELSE IndexOf(Sub(Parent(o), <<Idx(0), Idx(0)>>), lon, lat)
    ELSE IF o.hasInd
         THEN IF IsSlice(o.ind[Len(o.ind) - 1]) /\ IsSlice(o.ind[Len(o.ind)])
              THEN IndexOf(Sub(Parent(o), <<Idx(0), o.ind[Len(o.ind) - 1], o.ind[Len(o.ind)]>>), lon, lat)
              ELSE IF IsSlice(o.ind[Len(o.ind) - 1]) /\ ~IsSlice(o.ind[Len(o.ind)])
              THEN IndexOf(Sub(Parent(o), <<Idx(0), o.ind[Len(o.ind) - 1]>>), lon, lat)
              ELSE IF ~IsSlice(o.ind[Len(o.ind) - 1]) /\ IsSlice(o.ind[Len(o.ind)])
              THEN IndexOf(Sub(Parent(o), <<Idx(0), FullSel, o.ind[Len(o.ind)]>>), lon, lat)
              ELSE IndexOf(Sub(Parent(o), <<Idx(0)>>), lon, lat)
         ELSE IndexOf(Sub(Own(o), <<Idx(0)>>), lon, lat)

\* from_lonlat_rank2 on the original transform restricted to [0, 0], where
\* to_lonlat uses the transform of the observation itself
from_lonlat_rank2_parent(o, lon, lat) == IndexOf(Sub(Parent(o), <<Idx(0), Idx(0)>>), lon, lat)

\* the branch len(array_shape) == 2: the transform of the observation itself
from_lonlat_rank2(o, lon, lat) == IndexOf(Own(o), lon, lat)

\* after lon, lat = lon << u.arcsec, lat << u.arcsec
from_lonlat_arcsec(o, lon, lat) ==
    IF Rank(o) = 4 THEN from_lonlat_rank4(o, lon, lat)
    ELSE IF Rank(o) = 3 THEN from_lonlat_rank3(o, lon, lat)
    ELSE IF Rank(o) = 2 THEN from_lonlat_rank2(o, lon, lat)
    ELSE Raised("NotImplementedError")

\* from_lonlat without line 1229: the numbers reach the inverse transform as
\* they were handed in
from_lonlat_bare(o, lon, lat) == from_lonlat_arcsec(o, lon, lat)

from_lonlat(o, lon, lat) ==
    IF Convertible(lon, "arcsec") /\ Convertible(lat, "arcsec")
    THEN from_lonlat_arcsec(o, Convert(lon, "arcsec"), Convert(lat, "arcsec"))
    ELSE Raised("UnitConversionError")

\* from_lonlat(*r) for the outcome r of to_lonlat
from_lonlat_star(o, r) ==
    IF r.err # "" THEN Raised(r.err)
    ELSE IF Len(r.val) # 2 THEN Raised("TypeError")
    ELSE from_lonlat(o, r.val[1], r.val[2])

(***************************************************************************)
(* The state machine.  obs is the observation at hand, call the call being *)
(* made on it with its outcome.  The program is synchronous: one call at a *)
(* time, and the caller takes the outcome before anything else happens.    *)
(***************************************************************************)
NoCall == [op |-> "none", args |-> <<>>, src |-> <<>>, res |-> Raised("")]
\* CRISP("<name>.fits"): the cube of n axes of a FITS file, no wcs argument, so
\* the transform is WCS(header); the file holds negative values
Fresh(n) == [naxis |-> n, hasInd |-> FALSE, ind |-> <<>>,
             cls |-> "CRISP", file |-> "fits", given |-> FALSE, wcs |-> "WCS(header)",
             data |-> "neg"]
Idle == call.op = "none"

Init ==
    /\ obs \in {Fresh(n) : n \in 1..MaxAxes}
    /\ call = NoCall

\* CRISP(filename): a cube of n axes with the transform built from its header
Load(n) ==
    /\ Idle
    /\ obs' = Fresh(n)
    /\ call' = NoCall

\* obs[item]: a new observation on the sliced transform that carries the
\* item as its slicing state
Slice ==
    /\ Idle
    /\ ~obs.hasInd
    /\ \E item \in [1..obs.naxis -> Selectors] :
          obs' = [obs EXCEPT !.hasInd = TRUE, !.ind = item]
    /\ call' = NoCall

\* the indices handed to wave: those of an axis of a loaded cube, and the
\* index 5 of a longer wavelength axis (the transform is linear and does not
\* look at the axis length)
WaveInputs == (0..(AxisLen - 1)) \cup {5}

\* wave(idx) that keeps the view it built as the observation's slicing state
Wave_narrowing(idx) ==
    /\ Idle
    /\ call' = [op |-> "wave", args |-> <<idx>>, src |-> <<>>, res |-> wave(obs, idx)]
    /\ obs' = IF wave(obs, idx).sub.naxis = obs.naxis
              THEN [obs EXCEPT !.hasInd = TRUE, !.ind = wave(obs, idx).sub.sels]
              ELSE obs

\* wave(idx)
Wave(idx) ==
    /\ Idle
    /\ call' = [op |-> "wave", args |-> <<idx>>, src |-> <<>>, res |-> wave(obs, idx)]
    /\ UNCHANGED obs

\* to_lonlat(y, x) with array indices
ToLonLat(y, x) ==
    /\ Idle
    /\ call' = [op |-> "to_lonlat", args |-> <<y, x>>, src |-> <<>>, res |-> to_lonlat(obs, y, x)]
    /\ UNCHANGED obs

\* the bare numbers handed to from_lonlat: the longitudes and latitudes, in
\* arcseconds, of the pixels of the sample cube
LonInputs == {3600 * (10 + 2 * k) : k \in 0..(AxisLen - 1)}
LatInputs == {3600 * (3 * k - 5) : k \in 0..(AxisLen - 1)}

\* from_lonlat(lon, lat) with bare numbers
FromLonLat(lon, lat) ==
    /\ Idle
    /\ call' = [op |-> "from_lonlat", args |-> <<Qty(lon, 0, ""), Qty(lat, 0, "")>>, src |-> <<>>,
                res |-> from_lonlat(obs, Qty(lon, 0, ""), Qty(lat, 0, ""))]
    /\ UNCHANGED obs

\* from_lonlat(*to_lonlat(y, x)): the outcome of the to_lonlat call at hand
\* is handed to from_lonlat; src keeps the (y, x) it came from
RoundTrip ==
    /\ call.op = "to_lonlat"
    /\ call' = [op |-> "round_trip", args |-> call.res.val, src |-> call.args,
                res |-> from_lonlat_star(obs, call.res)]
    /\ UNCHANGED obs

\* the caller takes the outcome
Return ==
    /\ ~Idle
    /\ call' = NoCall
    /\ UNCHANGED obs

Next ==
    \/ \E n \in 1..MaxAxes : Load(n)
    \/ Slice
    \/ \E idx \in WaveInputs : Wave(idx)
    \/ \E y, x \in 0..(AxisLen - 1) : ToLonLat(y, x)
    \/ \E lon \in LonInputs, lat \in LatInputs : FromLonLat(lon, lat)
    \/ RoundTrip
    \/ Return

Spec == Init /\ [][Next]_vars

(***************************************************************************)
(* What the sample cube gives, written out independently of the views:     *)
(* the wavelength at index i of the original wavelength axis, and the      *)
(* longitude / latitude at pixel px / py of the original spatial axes.     *)
(***************************************************************************)
WaveAngstrom(i) == Qty(85420 + i, -1, "Angstrom")
LonArcsec(px) == Qty(3600 * (10 + 2 * px), 0, "arcsec")
LatArcsec(py) == Qty(3600 * (3 * py - 5), 0, "arcsec")
\* pixel of a longitude / latitude given in arcseconds
PxOfLon(q) == ((q.val \div 3600) - 10) \div 2
PyOfLat(q) == ((q.val \div 3600) + 5) \div 3

\* the selectors of the slicing state at positions -2 and -1, when present
SelY(o) == o.ind[Len(o.ind) - 1]
SelX(o) == o.ind[Len(o.ind)]
\* "the selector if it is a range, else full"
OrFull(sel) == IF IsSlice(sel) THEN sel ELSE FullSel
\* the original transform restricted by the given leading selectors
Restricted(o, lead) == View(o.naxis, [p \in 1..o.naxis |-> IF p <= Len(lead) THEN lead[p] ELSE FullSel])
\* the outcome of a call without the view: exception and value
Out(r) == [err |-> r.err, val |-> r.val]
IsWave == call.op = "wave"
IsSpatial == call.op \in {"to_lonlat", "from_lonlat"}

(***************************************************************************)
(* C1                                                                      *)
(***************************************************************************)
\* the two data axes of a rank-2 observation are y and x
SpatialRank2(o) == ~o.hasInd \/ (IsSlice(SelY(o)) /\ IsSlice(SelX(o)))
C1_Domain ==
    /\ call.op = "round_trip"
    /\ Rank(obs) \in {2, 3, 4}
    /\ (obs.naxis \in {3, 4} \/ ~obs.hasInd)

C2_Rank2WaveByParentAxes ==
    (IsWave /\ Rank(obs) = 2 /\ obs.hasInd) =>
        /\ obs.naxis = 4 =>
              /\ call.res.sub = View(4, <<Idx(0), FullSel, Idx(0), Idx(0)>>)
              /\ call.res.sub # View(4, <<FullSel, Idx(0), Idx(0), FullSel>>)
              /\ Out(call.res) = Ok(<<WaveAngstrom(call.args[1])>>)
        /\ obs.naxis = 3 =>
              /\ call.res.sub = View(3, <<FullSel, Idx(0), Idx(0)>>)
              /\ Out(call.res) = Ok(<<WaveAngstrom(call.args[1])>>)

C2_Witness ==
    /\ IsWave /\ Rank(obs) = 2 /\ obs.hasInd /\ obs.naxis = 4
    /\ call.args = <<1>>
    /\ call.res.val = <<WaveAngstrom(1)>>

(***************************************************************************)
(* C3                                                                      *)
(***************************************************************************)
\* C3: on rank-2 data wave raises IndexError exactly when no slicing state
\* is attached or the original transform has neither 3 nor 4 axes, and then
\* returns no value.
C3_Rank2NoSpectralAxis ==
    (IsWave /\ Rank(obs) = 2) =>
        /\ call.res.err = "IndexError" <=> (~obs.hasInd \/ obs.naxis \notin {3, 4})
        /\ call.res.err = "IndexError" => call.res.val = <<>>
        /\ call.res.err # "IndexError" => call.res.err = "" /\ Len(call.res.val) = 1

C3_Witness ==
    /\ IsWave /\ Rank(obs) = 2 /\ obs.hasInd /\ obs.naxis \notin {3, 4}
    /\ call.res.err = "IndexError"

(***************************************************************************)
(* C4                                                                      *)
(***************************************************************************)
\* C4: on rank-4 data wave uses the parent restricted to (0, the selector at
\* position 1, 0, 0) when that selector is a range, to (0, full, 0, 0) when
\* it is a single index, and its own transform restricted to [0, :, 0, 0]
\* without a slicing state; over a 4-axis parent the value is the wavelength
\* at the range's start plus the index.
C4_Rank4Wave ==
    (IsWave /\ Rank(obs) = 4) =>
        /\ (obs.hasInd /\ IsSlice(obs.ind[2])) =>
              /\ call.res.sub = Restricted(obs, <<Idx(0), obs.ind[2], Idx(0), Idx(0)>>)
              /\ obs.naxis = 4 => Out(call.res) = Ok(<<WaveAngstrom(obs.ind[2].start + call.args[1])>>)
        /\ (obs.hasInd /\ ~IsSlice(obs.ind[2])) =>
              call.res.sub = Restricted(obs, <<Idx(0), FullSel, Idx(0), Idx(0)>>)
        /\ ~obs.hasInd =>
              /\ call.res.sub = View(4, <<Idx(0), FullSel, Idx(0), Idx(0)>>)
              /\ Out(call.res) = Ok(<<WaveAngstrom(call.args[1])>>)
        \* the single-index branch, on the slicing state with position 1
        \* replaced by an index
        /\ obs.hasInd =>
              \A k \in 0..(AxisLen - 1) :
                  wave_rank4([obs EXCEPT !.ind[2] = Idx(k)], call.args[1]).sub
                      = Restricted(obs, <<Idx(0), FullSel, Idx(0), Idx(0)>>)

C4_Witness ==
    /\ IsWave /\ Rank(obs) = 4 /\ obs.hasInd /\ obs.naxis = 4
    /\ obs.ind[2].start = 1
    /\ call.args = <<0>>
    /\ call.res.val = <<WaveAngstrom(1)>>

(***************************************************************************)
(* C5                                                                      *)
(***************************************************************************)
\* C5: on rank-3 data with a slicing state over a 4-axis parent wave does
\* what the rank-4 branch does (selector at position 1, stokes 0);
\* otherwise it uses (selector at position 0 if a range else full, 0, 0),
\* on its own transform when there is no slicing state.
C5_Rank3Wave ==
    (IsWave /\ Rank(obs) = 3) =>
        /\ (obs.hasInd /\ obs.naxis = 4) =>
              /\ call.res = wave_rank4(obs, call.args[1])
              /\ call.res.sub = View(4, <<Idx(0), OrFull(obs.ind[2]), Idx(0), Idx(0)>>)
              /\ Out(call.res) = Ok(<<WaveAngstrom(OrFull(obs.ind[2]).start + call.args[1])>>)
        /\ (obs.hasInd /\ obs.naxis # 4) =>
              /\ call.res.sub = Restricted(obs, <<OrFull(obs.ind[1]), Idx(0), Idx(0)>>)
              /\ obs.naxis = 3 =>
                    Out(call.res) = Ok(<<WaveAngstrom(OrFull(obs.ind[1]).start + call.args[1])>>)
        /\ ~obs.hasInd =>
              /\ call.res.sub = View(3, <<FullSel, Idx(0), Idx(0)>>)
              /\ Out(call.res) = Ok(<<WaveAngstrom(call.args[1])>>)

C5_Witness ==
    /\ IsWave /\ Rank(obs) = 3 /\ obs.hasInd /\ obs.naxis = 4
    /\ IsSlice(obs.ind[2]) /\ obs.ind[2].start = 1
    /\ call.args = <<0>>
    /\ call.res.val = <<WaveAngstrom(1)>>

(***************************************************************************)
(* C6                                                                      *)
(***************************************************************************)
\* the single axis a rank-1 observation keeps
Axis1(o) == CHOOSE p \in Kept(Own(o)) : TRUE
Spectral1(o) == AxisKind(o.naxis, Axis1(o)) = "wave"
\* invoking the observation's own transform directly on the index
Direct(o, idx) == array_index_to_world(Own(o), <<idx>>)

\* C6 as stated: on rank-1 data wave(idx) returns what the observation's own
\* transform gives for idx (in Angstrom), for every idx and slicing state,
\* and prints the notice instead of raising.
C6_Rank1AlwaysReturns ==
    (IsWave /\ Rank(obs) = 1) =>
        /\ call.res.notice
        /\ call.res.err = ""
        /\ call.res.val = Shift(Direct(obs, call.args[1]), "Angstrom").val

\* C6 (amended): on rank-1 data wave prints the notice and raises neither
\* IndexError nor NotImplementedError; when the single axis is the
\* wavelength axis it returns what the observation's own transform gives for
\* idx, in Angstrom (the wavelength at the slice's start plus idx); when the
\* axis is not spectral the conversion to Angstrom fails.
C6_Rank1Wave ==
    (IsWave /\ Rank(obs) = 1) =>
        /\ call.res.notice
        /\ call.res.err \notin {"IndexError", "NotImplementedError"}
        /\ call.res.sub = Own(obs)
        /\ Spectral1(obs) =>
              /\ Direct(obs, call.args[1]).err = ""
              /\ Len(Direct(obs, call.args[1]).val) = 1
              /\ Direct(obs, call.args[1]).val[1].unit = "m"
              /\ call.res.val = <<Convert(Direct(obs, call.args[1]).val[1], "Angstrom")>>
              /\ Out(call.res) = Ok(<<WaveAngstrom(Own(obs).sels[Axis1(obs)].start + call.args[1])>>)
        /\ ~Spectral1(obs) => Out(call.res) = Fail("UnitConversionError")

C6_Witness ==
    /\ IsWave /\ Rank(obs) = 1 /\ obs.hasInd /\ obs.naxis = 4
    /\ Spectral1(obs) /\ obs.ind[2].start = 1
    /\ call.args = <<0>>
    /\ call.res.notice
    /\ call.res.val = <<WaveAngstrom(1)>>

(***************************************************************************)
(* C7                                                                      *)
(***************************************************************************)
IsWavelength(r) == r.err = "" /\ Len(r.val) = 1 /\ r.val[1].unit = "Angstrom"

YStart(o) == IF o.hasInd THEN OrFull(SelY(o)).start ELSE 0
XStart(o) == IF o.hasInd THEN OrFull(SelX(o)).start ELSE 0
\* longitude and latitude of array index (y, x) when y and x run along the
\* trailing selectors (from their start if they are ranges, else full)
ExpectedLonLat(o, a) == Ok(<<LonArcsec(XStart(o) + a[2]), LatArcsec(YStart(o) + a[1])>>)
\* and the array index of a longitude and latitude
ExpectedIndex(o, a) == Ok(<<PyOfLat(a[2]) - YStart(o), PxOfLon(a[1]) - XStart(o)>>)
Expected(o) == IF call.op = "to_lonlat" THEN ExpectedLonLat(o, call.args) ELSE ExpectedIndex(o, call.args)

\* C9: for rank-4 data and for rank-3 data sliced from a 4-axis parent,
\* to_lonlat and from_lonlat use the parent restricted to (0, 0, selector at
\* -2 if a range else full, selector at -1 if a range else full); without a
\* slicing state they use their own transform restricted to [0, 0].
C9_SpatialFrom4 ==
    (IsSpatial /\ (Rank(obs) = 4 \/ (Rank(obs) = 3 /\ obs.hasInd /\ obs.naxis = 4))) =>
        /\ obs.hasInd =>
              /\ call.res.sub = Restricted(obs, <<Idx(0), Idx(0), OrFull(SelY(obs)), OrFull(SelX(obs))>>)
              \* the branch for two single indices, on the slicing state
              \* with the trailing selectors replaced
              /\ to_lonlat_rank4([obs EXCEPT !.ind[Len(obs.ind) - 1] = Idx(1), !.ind[Len(obs.ind)] = Idx(1)], 0, 0).sub
                    = Restricted(obs, <<Idx(0), Idx(0)>>)
              /\ from_lonlat_rank4([obs EXCEPT !.ind[Len(obs.ind) - 1] = Idx(1), !.ind[Len(obs.ind)] = Idx(1)],
                                   LonArcsec(0), LatArcsec(0)).sub
                    = Restricted(obs, <<Idx(0), Idx(0)>>)
        /\ ~obs.hasInd => call.res.sub = View(4, <<Idx(0), Idx(0), FullSel, FullSel>>)
        /\ obs.naxis = 4 => Out(call.res) = Expected(obs)

C9_Witness ==
    /\ call.op = "to_lonlat" /\ Rank(obs) = 3 /\ obs.hasInd /\ obs.naxis = 4
    /\ IsSlice(SelY(obs)) /\ SelY(obs).start = 1 /\ ~IsSlice(SelX(obs))
    /\ call.args = <<0, 1>>
    /\ call.res.val = <<LonArcsec(1), LatArcsec(1)>>

C10_Domain == IsSpatial /\ (Rank(obs) = 2 \/ (Rank(obs) = 3 /\ obs.naxis = 3))

\* C10 as stated: for rank-3 data over a 3-axis parent and for rank-2 data,
\* to_lonlat and from_lonlat give the result of the parent restricted to
\* (wavelength 0, selector at -2 if a range else full, selector at -1 if a
\* range else full), at rank 2 for every slicing state.
C10_RestrictedParentEveryState ==
    C10_Domain => Out(call.res) = Expected(obs)

\* C10 (amended): for rank-3 data over a 3-axis parent they use the parent
\* restricted to (0, selector at -2 if a range else full, selector at -1 if
\* a range else full).  For rank-2 data they use the observation's own
\* transform: its result is that of the restricted parent when the two data
\* axes are y and x (no slicing state, or both trailing selectors ranges),
\* and the call fails for every other slicing state.
C10_SpatialFrom3And2 ==
    C10_Domain =>
        /\ Rank(obs) = 3 =>
              /\ call.res.sub = View(3, <<Idx(0), IF obs.hasInd THEN OrFull(SelY(obs)) ELSE FullSel,
                                                 IF obs.hasInd THEN OrFull(SelX(obs)) ELSE FullSel>>)
              /\ Out(call.res) = Expected(obs)
        /\ Rank(obs) = 2 =>
              /\ call.res.sub = Own(obs)
              /\ SpatialRank2(obs) => Out(call.res) = Expected(obs)
              /\ ~SpatialRank2(obs) => call.res.err \in {"TypeError", "UnitConversionError"}

C10_Witness ==
    /\ call.op = "to_lonlat" /\ Rank(obs) = 2 /\ obs.hasInd /\ obs.naxis = 4
    /\ SpatialRank2(obs) /\ SelY(obs).start = 1 /\ SelX(obs).start = 1
    /\ call.args = <<0, 0>>
    /\ call.res.val = <<LonArcsec(1), LatArcsec(1)>>

(***************************************************************************)
(* C11                                                                     *)
(***************************************************************************)
Abs(n) == IF n < 0 THEN -n ELSE n
\* q is a wavelength within 10^-3 Angstrom of tenths * 0.1 Angstrom
WithinMilli(q, tenths) == q.unit = "Angstrom" /\ q.exp = -1 /\ 100 * Abs(q.val - tenths) <= 1

\* wave(5) on a 4-axis cube sliced to a single stokes index and a y range,
\* wavelength and x left full
C11_Case ==
    /\ IsWave /\ obs.naxis = 4 /\ obs.hasInd
    /\ ~IsSlice(obs.ind[1]) /\ obs.ind[2] = FullSel
    /\ IsSlice(obs.ind[3]) /\ obs.ind[4] = FullSel
    /\ call.args = <<5>>

\* C11 as stated: on the cube whose wavelength at index i is 8542.0 + 0.1 i
\* Angstrom, sliced to one stokes index and a y range, wave(5) returns
\* 8543.0 Angstrom within 10^-3.
C11_Wave5Is8543 ==
    C11_Case => (call.res.err = "" /\ Len(call.res.val) = 1 /\ WithinMilli(call.res.val[1], 85430))

\* C11 (amended): in that case wave(5) returns 8542.5 Angstrom within 10^-3,
\* the wavelength 8542.0 + 0.1 * 5 of index 5 of the full wavelength axis.
C11_Wave5Is8542p5 ==
    C11_Case =>
        /\ call.res.err = "" /\ Len(call.res.val) = 1
        /\ WithinMilli(call.res.val[1], 85420 + 5)
        /\ call.res.sub = View(4, <<Idx(0), FullSel, Idx(0), Idx(0)>>)

C11_Witness ==
    /\ C11_Case /\ Rank(obs) = 3
    /\ obs.ind[1] = Idx(1) /\ obs.ind[3].start = 1
    /\ call.res.val = <<Qty(85425, -1, "Angstrom")>>

(***************************************************************************)
(* C12                                                                     *)
(***************************************************************************)
\* the bare arguments of a from_lonlat call with the arcsecond unit attached
ArcsecArgs == <<Qty(call.args[1].val, call.args[1].exp, "arcsec"),
                Qty(call.args[2].val, call.args[2].exp, "arcsec")>>

\* C12: a wave call that returns gives one value in Angstrom, the output in
\* meters of the view it evaluated times 10^10; a to_lonlat call that returns
\* gives two values in arcseconds, the view's output in degrees times 3600;
\* from_lonlat hands its bare numbers to the inverse transform as
\* arcseconds, whatever branch it takes.
C12_Units ==
    /\ (IsWave /\ call.res.err = "") =>
          LET raw == array_index_to_world(call.res.sub, call.args)
          IN /\ Len(call.res.val) = 1
             /\ call.res.val[1].unit = "Angstrom"
             /\ raw.err = "" /\ Len(raw.val) = 1 /\ raw.val[1].unit = "m"
             /\ call.res.val[1].val = raw.val[1].val
             /\ call.res.val[1].exp = raw.val[1].exp + 10
    /\ (call.op = "to_lonlat" /\ call.res.err = "") =>
          LET raw == array_index_to_world(call.res.sub, call.args)
          IN /\ Len(call.res.val) = 2
             /\ raw.err = "" /\ Len(raw.val) = 2
             /\ \A i \in 1..2 :
                   /\ call.res.val[i].unit = "arcsec"
                   /\ raw.val[i].unit = "deg"
                   /\ call.res.val[i].val = 3600 * raw.val[i].val
                   /\ call.res.val[i].exp = raw.val[i].exp
    /\ call.op = "from_lonlat" =>
          /\ call.args[1].unit = "" /\ call.args[2].unit = ""
          /\ call.res = from_lonlat_arcsec(obs, ArcsecArgs[1], ArcsecArgs[2])
          /\ call.res.sub # NoView =>
                Out(call.res) = world_to_array_index(call.res.sub, ArcsecArgs)

C12_Witness ==
    /\ call.op = "from_lonlat" /\ Rank(obs) = 3 /\ obs.hasInd /\ obs.naxis = 4
    /\ call.args = <<Qty(3600 * 12, 0, ""), Qty(3600 * (-2), 0, "")>>
    /\ call.res.err = ""
    /\ call.res.val = <<1 - YStart(obs), 1 - XStart(obs)>>

(***************************************************************************)
(* C13, C14                                                                *)
(***************************************************************************)
ResolverOps == {"wave", "to_lonlat", "from_lonlat", "round_trip"}

\* t is a narrowed view of the original transform of o: the same transform,
\* each axis restricted to an index or a range within the axis
NarrowedView(o, t) ==
    /\ t.naxis = o.naxis
    /\ \A p \in 1..t.naxis : t.sels[p].start >= 0 /\ t.sels[p].stop <= AxisLen

\* C13: a step that calls wave, to_lonlat or from_lonlat (from_lonlat on the
\* outcome of to_lonlat included), and the step that takes its outcome,
\* returned or raised, leave the observation as it was: data, file, slicing
\* state and transform; what the call evaluated is a narrowed view of the
\* original transform, or nothing when it raised before evaluating one.
C13_NoSideEffect ==
    [][ /\ (call.op \in ResolverOps \/ call'.op \in ResolverOps) => obs' = obs
        /\ call'.op \in ResolverOps =>
              (call'.res.sub = NoView \/ NarrowedView(obs, call'.res.sub)) ]_vars

C13_Witness ==
    /\ call.op = "round_trip" /\ obs.hasInd /\ obs.naxis = 4
    /\ Rank(obs) = 2 /\ ~SpatialRank2(obs)
    /\ call.res.err # ""

\* the file kinds, wcs arguments and data a CRISP observation can be built on
FileKinds == {"fits", "h5", "hdf5", "objdict"}
DataValues == {"neg", "pos", "nan"}
\* the CRISP observations that agree with o on rank, slicing state and
\* transform
Variants(o) ==
    {[o EXCEPT !.data = d, !.file = f, !.given = g] :
        d \in DataValues, f \in FileKinds, g \in BOOLEAN}

\* C14: the outcome of wave, to_lonlat and from_lonlat on given arguments,
\* value or error, is the same for every CRISP observation with the same
\* rank, slicing state and transform, whatever its data and file, in every
\* state the program reaches (whatever calls came before).
C14_Deterministic ==
    /\ IsWave => \A o \in Variants(obs) : wave(o, call.args[1]) = call.res
    /\ call.op = "to_lonlat" =>
          \A o \in Variants(obs) : to_lonlat(o, call.args[1], call.args[2]) = call.res
    /\ call.op = "from_lonlat" =>
          \A o \in Variants(obs) : from_lonlat(o, call.args[1], call.args[2]) = call.res
    /\ call.op = "round_trip" =>
          \A o \in Variants(obs) :
              from_lonlat_star(o, to_lonlat(o, call.src[1], call.src[2])) = call.res

C14_Witness ==
    /\ IsWave /\ obs.hasInd /\ obs.naxis = 3 /\ Rank(obs) = 2
    /\ call.args = <<1>>
    /\ call.res.val = <<WaveAngstrom(1)>>
    /\ wave([obs EXCEPT !.data = "nan", !.file = "objdict", !.given = TRUE], 1) = call.res

(***************************************************************************)
(* CRISP.__init__.  A filename is a name containing ".fits", ".h5" or      *)
(* ".hdf5", the name of a text file that contains none of them ("txt"), an *)
(* ObjDict, or an object of another type (a list, an integer); `given`     *)
(* says that the wcs argument is not None.                                 *)
(***************************************************************************)
\* type(filename) == str
IsStr(filename) == filename \in {"fits", "h5", "hdf5", "txt"}
\* `"<ext>" in filename` can be evaluated: not on an integer
Iterable(filename) == filename # "int"
\* "<ext>" in filename: a substring of a name, a key of an ObjDict
Contains(filename, ext) == IsStr(filename) /\ filename = ext

\* lines 41-51: where self.file comes from; `A and ".h5" or B` is
\* (A and ".h5") or B, and ".h5" is a true value
init_file(filename) ==
    IF IsStr(filename) /\ Contains(filename, "fits") THEN "fits.open"
    ELSE IF ~(IsStr(filename) /\ TRUE) /\ ~Iterable(filename) THEN "TypeError"
    ELSE IF (IsStr(filename) /\ TRUE) \/ Contains(filename, "hdf5") THEN "h5py.File"
    ELSE IF filename = "objdict" THEN "ObjDict"
    ELSE "NotImplementedError"

\* how the loading of lines 41-51 ends: h5py.File on a file that is not HDF5
\* raises OSError
init_err(filename) ==
    IF init_file(filename) \in {"NotImplementedError", "TypeError"} THEN init_file(filename)
    ELSE IF init_file(filename) = "h5py.File" /\ filename = "txt" THEN "OSError"
    ELSE ""

\* lines 52-57: which transform self.wcs is
init_wcs(filename, given) ==
    IF ~given /\ Contains(filename, "fits") THEN "WCS(header)"
    ELSE IF (~given /\ TRUE) \/ Contains(filename, "hdf5") THEN "hdf5_header_to_wcs(header)"
    ELSE "supplied"

\* cls(filename, wcs=...) on a file that holds a cube of n axes with data d
CRISP_init(cls, filename, given, n, d) ==
    IF init_err(filename) # ""
    THEN [err |-> init_err(filename), obs |-> Fresh(n)]
    ELSE [err |-> "",
          obs |-> [naxis |-> n, hasInd |-> FALSE, ind |-> <<>>,
                   cls |-> cls, file |-> filename, given |-> given,
                   wcs |-> init_wcs(filename, given), data |-> d]]

Classes == {"CRISP", "CRISPNonU"}
\* the data of a file: with or without negative values
FileData == {"neg", "pos"}

\* the constructor call
Construct(cls, filename, given, n, d) ==
    /\ Idle
    /\ IF CRISP_init(cls, filename, given, n, d).err = ""
       THEN /\ obs' = CRISP_init(cls, filename, given, n, d).obs
            /\ call' = NoCall
       ELSE /\ obs' = obs
            /\ call' = [op |-> "init", args |-> <<filename, given>>, src |-> <<>>,
                        res |-> Raised(CRISP_init(cls, filename, given, n, d).err),
                        loader |-> init_file(filename)]

InitNew ==
    /\ obs \in {CRISP_init(cls, f, g, n, d).obs :
                  cls \in Classes, f \in FileKinds, g \in BOOLEAN, n \in 1..MaxAxes, d \in FileData}
    /\ call = NoCall

\* what the constructor is called with: the file kinds, a text file, a list,
\* an integer
FileArgs == FileKinds \cup {"txt", "list", "int"}

NextNew ==
    \/ \E cls \in Classes, f \in FileArgs, g \in BOOLEAN, n \in 1..MaxAxes, d \in FileData :
          Construct(cls, f, g, n, d)
    \/ Return

SpecNew == InitNew /\ [][NextNew]_vars

(***************************************************************************)
(* C19                                                                     *)
(***************************************************************************)
\* C19: an observation built with a wcs argument has exactly that transform,
\* whatever the kind of its filename; the transform is built from the header
\* only when no wcs argument was given.
C19_SuppliedWcsUsed ==
    /\ obs.given => obs.wcs = "supplied"
    /\ obs.wcs \in {"WCS(header)", "hdf5_header_to_wcs(header)"} => ~obs.given

(***************************************************************************)
(* plot_stokes and stokes_map of CRISP and CRISPNonU.  A call ends with    *)
(* the exception it raises ("" when it returns), the number of figures it  *)
(* created, whether it drew data on them, and the data array it leaves.    *)
(***************************************************************************)
\* the selectors the branches test for: several profiles, one profile
StokesCombos == {"all", "IQU", "QUV", "IQV", "IUV", "IQ", "IU", "IV", "QU", "QV", "UV"}
StokesLetters == {"I", "Q", "U", "V"}
\* the branches that run data[data < 0] = np.nan on Stokes I
WithI == {"all", "IQU", "IQV", "IUV", "IQ", "IU", "IV"}

Plotted(e, f, d, a) == [err |-> e, figs |-> f, drawn |-> d, data |-> a]
\* data[data < 0] = np.nan, in place
Masked(a) == IF a = "neg" THEN "nan" ELSE a
\* self.data.ndim
ndim(o) == Len(array_shape(Own(o)))

\* line 194 / 1654: the point (lon, lat) of the profile,
\* _wcs[0,0].array_index_to_world(*self.ind[-2:]) in arcseconds
plot_point(o) ==
    IF ~o.hasInd THEN Fail("AttributeError")
    ELSE IF IsSlice(o.ind[Len(o.ind) - 1]) \/ IsSlice(o.ind[Len(o.ind)]) THEN Fail("TypeError")
    ELSE Shift(array_index_to_world(Sub(Parent(o), <<Idx(0), Idx(0)>>),
                                    <<o.ind[Len(o.ind) - 1].start, o.ind[Len(o.ind)].start>>),
               "arcsec")

\* lines 203-208 / 243-248: the wavelength axis of the plot,
\* self.wcs.array_index_to_world(np.arange(n)) << u.m, then Angstrom;
\* lines 1663-1668 / 1703-1708: self.wvls in CRISPNonU
plot_wavelength(o) ==
    IF o.cls = "CRISPNonU" THEN Ok(<<Qty(85420, -1, "Angstrom")>>)
    ELSE Shift(Shift(array_index_to_world(Own(o), <<0>>), "m"), "Angstrom")

\* the branch data.ndim == 1 with every Stokes selector accepted
plot_stokes_rank1_any(o, stokes) ==
    IF plot_wavelength(o).err # "" THEN Plotted(plot_wavelength(o).err, 0, FALSE, o.data)
    ELSE IF stokes \in StokesLetters \cup StokesCombos THEN Plotted("", 1, TRUE, o.data)
    ELSE Plotted("ValueError", 1, TRUE, o.data)

\* the branch data.ndim == 1 (lines 202-241, 1662-1701): the figure is made
\* and the profile drawn, then the selector is tested
plot_stokes_rank1(o, stokes) ==
    IF plot_wavelength(o).err # "" THEN Plotted(plot_wavelength(o).err, 0, FALSE, o.data)
    ELSE IF stokes \in StokesLetters THEN Plotted("", 1, TRUE, o.data)
    ELSE Plotted("ValueError", 1, TRUE, o.data)

\* the branch data.ndim == 2 without the test for "all"
plot_stokes_rank2_noall(o, stokes) ==
    IF plot_wavelength(o).err # "" THEN Plotted(plot_wavelength(o).err, 0, FALSE, o.data)
    ELSE IF stokes \in StokesCombos \ {"all"} THEN Plotted("", 1, TRUE, o.data)
    ELSE Plotted("UnboundLocalError", 0, FALSE, o.data)

\* the branch data.ndim == 2 (lines 242-432, 1702-1892): one test per
\* combination and no else; "all" of CRISP ends at ticks_right (line 281);
\* a selector no test matches reaches fig.show() (line 434, 1894) with fig
\* unbound
plot_stokes_rank2(o, stokes) ==
    IF plot_wavelength(o).err # "" THEN Plotted(plot_wavelength(o).err, 0, FALSE, o.data)
    ELSE IF stokes = "all"
         THEN IF o.cls = "CRISP"
              THEN Plotted("AttributeError", 1, TRUE, o.data)
              ELSE Plotted("", 1, TRUE, o.data)
    ELSE IF stokes \in StokesCombos THEN Plotted("", 1, TRUE, o.data)
    ELSE Plotted("UnboundLocalError", 0, FALSE, o.data)

\* plot_stokes(stokes)
plot_stokes(o, stokes) ==
    IF plot_point(o).err # "" THEN Plotted(plot_point(o).err, 0, FALSE, o.data)
    ELSE IF ndim(o) = 1 THEN plot_stokes_rank1(o, stokes)
    ELSE IF ndim(o) = 2 THEN plot_stokes_rank2(o, stokes)
    ELSE Plotted("UnboundLocalError", 0, FALSE, o.data)

\* self.wvls of CRISPNonU (lines 1551-1554): the table of the sampled
\* wavelengths of the file; the sample table holds NWvls wavelengths,
\* 8542.0 + 0.1 k^2 Angstrom at entry k, which no linear transform gives
NWvls == 6
wvls == [i \in 1..NWvls |-> Qty(85420 + (i - 1) * (i - 1), -1, "Angstrom")]
\* self.wvls[sel]: an entry for an integer (numpy raises IndexError beyond
\* the table, written apart from the IndexError wave raises itself), the
\* entries of the range for a slice
wvls_item(sel) ==
    IF IsSlice(sel)
    THEN Ok(SubSeq(wvls, sel.start + 1, IF sel.stop < NWvls THEN sel.stop ELSE NWvls))
    ELSE IF sel.start < NWvls THEN Ok(<<wvls[sel.start + 1]>>)
    ELSE Fail("IndexError(out of bounds)")

\* line 499: the wavelength of the map,
\* _wcs[0,:,0,0].array_index_to_world(self.ind[1]) << u.Angstrom;
\* line 1958: self.wvls[self.ind[-1]] in CRISPNonU
map_wvl(o) ==
    IF ~o.hasInd THEN Fail("AttributeError")
    ELSE IF o.cls = "CRISPNonU" THEN wvls_item(o.ind[Len(o.ind)])
    ELSE IF IsSlice(o.ind[2]) THEN Fail("TypeError")
    ELSE Shift(array_index_to_world(Sub(Parent(o), <<Idx(0), FullSel, Idx(0), Idx(0)>>),
                                    <<o.ind[2].start>>),
               "Angstrom")

\* the branch data.ndim == 2 (lines 508-534, 814-840, 1967-1993,
\* 2274-2300): the figure is made, then the selector is tested
stokes_map_rank2(o, stokes) ==
    IF stokes = "I" THEN Plotted("", 1, TRUE, Masked(o.data))
    ELSE IF stokes \in {"Q", "U", "V"} THEN Plotted("", 1, TRUE, o.data)
    ELSE Plotted("ValueError", 1, FALSE, o.data)

\* the branch data.ndim == 3 (lines 535-812, 841-1119): one test per
\* combination and no else; "all" of CRISP ends at ticks_right (line 576,
\* 882) after Stokes I was masked and drawn
stokes_map_rank3(o, stokes) ==
    IF stokes = "all"
    THEN IF o.cls = "CRISP"
         THEN Plotted("AttributeError", 1, TRUE, Masked(o.data))
         ELSE Plotted("", 1, TRUE, Masked(o.data))
    ELSE IF stokes \in StokesCombos
         THEN Plotted("", 1, TRUE, IF stokes \in WithI THEN Masked(o.data) ELSE o.data)
    ELSE Plotted("UnboundLocalError", 0, FALSE, o.data)

\* stokes_map(stokes, frame); frame None is written "None"
stokes_map(o, stokes, frame) ==
    IF map_wvl(o).err # "" THEN Plotted(map_wvl(o).err, 0, FALSE, o.data)
    ELSE IF frame \in {"None", "pix"}
         THEN IF ndim(o) = 2 THEN stokes_map_rank2(o, stokes)
              ELSE IF ndim(o) = 3 THEN stokes_map_rank3(o, stokes)
              ELSE Plotted("UnboundLocalError", 0, FALSE, o.data)
    ELSE Plotted("UnboundLocalError", 0, FALSE, o.data)

\* the selectors handed to the plotting methods: the fifteen the branches
\* know and three they do not
StokesInputs == StokesCombos \cup StokesLetters \cup {"IQZ", "", "Z"}
Frames == {"None", "pix"}

\* a Stokes cube (stokes, wavelength, y, x) read from a FITS file
StokesCube(cls, d) == CRISP_init(cls, "fits", FALSE, 4, d).obs

LoadStokes(cls, d) ==
    /\ Idle
    /\ obs' = StokesCube(cls, d)
    /\ call' = NoCall

PlotStokes(stokes) ==
    /\ Idle
    /\ call' = [op |-> "plot_stokes", args |-> <<stokes>>, src |-> <<>>,
                res |-> plot_stokes(obs, stokes), data0 |-> obs.data]
    /\ obs' = [obs EXCEPT !.data = plot_stokes(obs, stokes).data]

StokesMap(stokes, frame) ==
    /\ Idle
    /\ call' = [op |-> "stokes_map", args |-> <<stokes, frame>>, src |-> <<>>,
                res |-> stokes_map(obs, stokes, frame), data0 |-> obs.data]
    /\ obs' = [obs EXCEPT !.data = stokes_map(obs, stokes, frame).data]

InitPlot ==
    /\ obs \in {StokesCube(cls, d) : cls \in Classes, d \in FileData}
    /\ call = NoCall

NextPlot ==
    \/ \E cls \in Classes, d \in FileData : LoadStokes(cls, d)
    \/ Slice
    \/ \E stokes \in StokesInputs : PlotStokes(stokes)
    \/ \E stokes \in StokesInputs, frame \in Frames : StokesMap(stokes, frame)
    \/ Return

SpecPlot == InitPlot /\ [][NextPlot]_vars

(***************************************************************************)
(* C15 - C18.  A plotting call is judged on data it can plot: a slice of a *)
(* Stokes cube for which the lines before the selector tests succeed.      *)
(***************************************************************************)
IsPlot == call.op \in {"plot_stokes", "stokes_map"}
\* the selector of the plotting call at hand
Sel == call.args[1]
PlotReady(o) == plot_point(o).err = "" /\ plot_wavelength(o).err = ""
MapReady(o) == map_wvl(o).err = ""
\* the call at hand got as far as the selector tests of a rank it handles
AtSelectorTests ==
    \/ call.op = "plot_stokes" /\ PlotReady(obs) /\ ndim(obs) \in {1, 2}
    \/ call.op = "stokes_map" /\ MapReady(obs) /\ ndim(obs) \in {2, 3}

\* C15: a selector that is none of the fifteen Stokes combinations makes
\* plot_stokes (rank 1 and 2) and stokes_map (rank 2 and 3, both frames)
\* raise the selector error.
C15_InvalidSelectorRaises ==
    (AtSelectorTests /\ Sel \notin StokesLetters \cup StokesCombos) =>
        call.res.err = "ValueError"

\* C16 as stated: "I" and "all" raise no selector error in plot_stokes, on
\* rank-1 and on rank-2 data.
C16_IAndAllValid ==
    (call.op = "plot_stokes" /\ AtSelectorTests /\ Sel \in {"I", "all"}) =>
        call.res.err # "ValueError"

\* C16 (amended): "I" is plotted on rank-1 data and "all" on rank-2 data
\* without a selector error; "all" on rank-1 data raises the ValueError of
\* the single-profile branch; "I" on rank-2 data matches none of the tests
\* of that branch, so nothing is plotted.
C16_IOnOneAllOnSeveral ==
    (call.op = "plot_stokes" /\ AtSelectorTests) =>
        /\ (ndim(obs) = 1 /\ Sel = "I") => (call.res.err = "" /\ call.res.figs = 1)
        /\ (ndim(obs) = 2 /\ Sel = "all") =>
              /\ call.res.err \notin {"ValueError", "UnboundLocalError"}
              /\ call.res.figs = 1
              /\ obs.cls = "CRISPNonU" => call.res.err = ""
        /\ (ndim(obs) = 1 /\ Sel = "all") => call.res.err = "ValueError"
        /\ (ndim(obs) = 2 /\ Sel = "I") => (call.res.err # "ValueError" /\ call.res.figs = 0)

C16_Witness ==
    /\ call.op = "plot_stokes" /\ obs.cls = "CRISPNonU" /\ ndim(obs) = 2
    /\ Sel = "all"
    /\ call.res.err = "" /\ call.res.figs = 1 /\ call.res.drawn

\* C17: on single-profile data (rank 1 in plot_stokes, rank 2 in
\* stokes_map) the call raises ValueError exactly when the selector is not
\* one of "I", "Q", "U", "V"; no other rank raises it; CRISP and CRISPNonU
\* give the same outcome.
C17_NotAStokesProfile ==
    /\ (call.op = "plot_stokes" /\ PlotReady(obs) /\ ndim(obs) = 1) =>
          /\ call.res.err = "ValueError" <=> Sel \notin StokesLetters
          /\ \A c \in Classes :
                PlotReady([obs EXCEPT !.cls = c]) =>
                    plot_stokes([obs EXCEPT !.cls = c], Sel) = call.res
    /\ (call.op = "stokes_map" /\ MapReady(obs) /\ ndim(obs) = 2) =>
          /\ call.res.err = "ValueError" <=> Sel \notin StokesLetters
          /\ \A c \in Classes :
                MapReady([obs EXCEPT !.cls = c]) =>
                    stokes_map([obs EXCEPT !.cls = c, !.data = call.data0], Sel, call.args[2])
                        = call.res
    /\ (IsPlot /\ call.res.err = "ValueError") =>
          /\ Sel \notin StokesLetters
          /\ ndim(obs) = (IF call.op = "plot_stokes" THEN 1 ELSE 2)

C17_Witness ==
    /\ call.op = "stokes_map" /\ obs.cls = "CRISPNonU" /\ ndim(obs) = 2
    /\ Sel = "IQ" /\ call.args[2] = "pix"
    /\ call.res.err = "ValueError"

\* C18: when plot_stokes or stokes_map rejects a selector, the call has
\* created no figure, drawn nothing and left the data as it was.
C18_NoPartialResult ==
    (IsPlot /\ call.res.err = "ValueError") =>
        /\ call.res.figs = 0
        /\ ~call.res.drawn
        /\ obs.data = call.data0

(***************************************************************************)
(* C23                                                                     *)
(***************************************************************************)
\* the selector of the slicing state on the wavelength axis of the parent:
\* position 1 of (stokes, wavelength, y, x), position 0 of (wavelength, y, x)
\* and of (wavelength)
SelWave(o) == o.ind[PosOf(o.naxis, "wave")]
\* o was sliced from a cube with a wavelength axis and kept a wavelength range
KeepsWaveRange(o) == o.hasInd /\ o.naxis \in {1, 3, 4} /\ IsSlice(SelWave(o))
\* wave(i) gave the parent's wavelength at index k
IsParentWave(k) == Out(call.res) = Ok(<<WaveAngstrom(k)>>)

\* C23 as stated: on an observation sliced so that the wavelength selector
\* is a range starting at s, wave(i) is the parent's wavelength at index
\* s + i, at every data rank from 1 to 4.
C23_OffsetAtEveryRank ==
    (IsWave /\ KeepsWaveRange(obs) /\ Rank(obs) \in 1..4) =>
        IsParentWave(SelWave(obs).start + call.args[1])

\* C23 (amended): on such an observation wave(i) is the parent's wavelength
\* at index s + i at data rank 1, 3 and 4; at data rank 2 it is the parent's
\* wavelength at index i of the full wavelength axis, whatever s is.
C23_OffsetButRank2 ==
    (IsWave /\ KeepsWaveRange(obs) /\ Rank(obs) \in 1..4) =>
        /\ Rank(obs) \in {1, 3, 4} => IsParentWave(SelWave(obs).start + call.args[1])
        /\ Rank(obs) = 2 =>
              /\ IsParentWave(call.args[1])
              /\ call.res.sub = Restricted(obs, [p \in 1..(obs.naxis - 2) |->
                                                   IF p = PosOf(obs.naxis, "wave") THEN FullSel ELSE Idx(0)]
                                                \o <<Idx(0), Idx(0)>>)

C23_Witness ==
    /\ IsWave /\ KeepsWaveRange(obs) /\ obs.naxis = 4 /\ Rank(obs) = 3
    /\ SelWave(obs).start = 1
    /\ call.args = <<1>>
    /\ call.res.val = <<WaveAngstrom(2)>>

(***************************************************************************)
(* C24                                                                     *)
(***************************************************************************)
\* the views to_lonlat builds on o for the array indices, and from_lonlat
\* for the bare longitudes and latitudes
ViewsTo(o) == {to_lonlat(o, y, x).sub : y \in 0..(AxisLen - 1), x \in 0..(AxisLen - 1)}
ViewsFrom(o) == {from_lonlat(o, Qty(lon, 0, ""), Qty(lat, 0, "")).sub : lon \in LonInputs, lat \in LatInputs}

\* C24: at rank 2, 3 and 4, with and without a slicing state, for every kind
\* of the selectors at positions -2 and -1 and every parent axis count,
\* to_lonlat and from_lonlat evaluate one and the same view of the
\* transform, whatever their arguments; when to_lonlat returns, the inverse
\* direction of that view takes its result back to the indices.
C24_SameView ==
    (IsSpatial /\ Rank(obs) \in 2..4) =>
        /\ call.res.sub # NoView
        /\ ViewsTo(obs) = {call.res.sub}
        /\ ViewsFrom(obs) = {call.res.sub}
        /\ (call.op = "to_lonlat" /\ call.res.err = "") =>
              world_to_array_index(call.res.sub, call.res.val) = Ok(call.args)

C24_Witness ==
    /\ call.op = "from_lonlat" /\ Rank(obs) = 3 /\ obs.hasInd /\ obs.naxis = 4
    /\ ~IsSlice(SelY(obs)) /\ IsSlice(SelX(obs)) /\ SelX(obs).start = 1
    /\ call.res.err = ""
    /\ call.res.sub = View(4, <<Idx(0), Idx(0), FullSel, SelX(obs)>>)
    /\ to_lonlat(obs, 0, 0).sub = call.res.sub

(***************************************************************************)
(* C25                                                                     *)
(***************************************************************************)
\* the number of range selectors of the slicing state
NRanges(o) == Cardinality({p \in 1..Len(o.ind) : IsSlice(o.ind[p])})
\* the call at hand went through a single-index branch of the rank-4 code:
\* wave on a single index at position 1, to_lonlat / from_lonlat on a single
\* index at position -2 or -1
SingleIndexBranch4 ==
    /\ Rank(obs) = 4 /\ obs.hasInd
    /\ \/ IsWave /\ ~IsSlice(obs.ind[2])
       \/ IsSpatial /\ (~IsSlice(SelY(obs)) \/ ~IsSlice(SelX(obs)))

C28_SameLabelEntry ==
    (call.op = "stokes_map" /\ obs.hasInd /\ ~IsSlice(obs.ind[2]) /\ ndim(obs) \in {2, 3}) =>
        /\ map_wvl([obs EXCEPT !.cls = "CRISP"]) = Ok(<<WaveAngstrom(obs.ind[2].start)>>)
        /\ map_wvl([obs EXCEPT !.cls = "CRISPNonU"]) = Ok(<<wvls[obs.ind[2].start + 1]>>)

(***************************************************************************)
(* C29                                                                     *)
(***************************************************************************)
\* a string that contains ".fits", ".h5" or ".hdf5"
KnownName(f) == IsStr(f) /\ (Contains(f, "fits") \/ Contains(f, "h5") \/ Contains(f, "hdf5"))

\* C29: a constructor call that fails on a filename that is neither an
\* ObjDict nor a string containing ".fits", ".h5" or ".hdf5" raised
\* NotImplementedError and opened no file; every such filename fails; the
\* HDF5 loader is reached only by strings containing ".h5" or ".hdf5".
C29_UnknownFilenameRejected ==
    /\ call.op = "init" =>
          /\ (call.args[1] # "objdict" /\ ~KnownName(call.args[1])) =>
                /\ call.res.err = "NotImplementedError"
                /\ call.loader \notin {"fits.open", "h5py.File"}
          /\ call.loader = "h5py.File" =>
                (Contains(call.args[1], "h5") \/ Contains(call.args[1], "hdf5"))
    /\ \A f \in FileArgs :
          (f # "objdict" /\ ~KnownName(f)) => CRISP_init(obs.cls, f, obs.given, obs.naxis, obs.data).err # ""

(***************************************************************************)
(* intensity_map of CRISP, CRISPWideband and CRISPNonU, and the wave of    *)
(* CRISPNonU.  The slicing state of these observations is the tuple of     *)
(* selectors or, for obs[k], the bare integer k that line 449 tests for    *)
(* (`bare`, with the integer as the only entry of ind).                    *)
(***************************************************************************)
MapClasses == Classes \cup {"CRISPWideband"}

\* cls("<name>.fits") on a file with a cube of n axes and data d
MapCube(cls, n, d) ==
    [naxis |-> n, hasInd |-> FALSE, ind |-> <<>>, bare |-> FALSE,
     cls |-> cls, file |-> "fits", given |-> FALSE, wcs |-> init_wcs("fits", FALSE),
     data |-> d]

\* CRISP.wave on an observation whose slicing state may be a bare integer:
\* the rank-3 and rank-4 branches subscript self.ind
wave_ind(o, idx) ==
    IF o.hasInd /\ o.bare /\ Rank(o) \in {3, 4} THEN Raised("TypeError")
    ELSE wave(o, idx)

\* CRISPNonU.wave with the transform consulted, as CRISP.wave does
wave_nonu_transform(o, idx) == wave_ind(o, idx)

\* CRISPNonU.wave (lines 2583-2592): return self.wvls[idx]
wave_nonu(o, idx) ==
    [err |-> wvls_item(Idx(idx)).err, val |-> wvls_item(Idx(idx)).val, sub |-> NoView, notice |-> FALSE]

\* self.wave(idx) of the class of o
self_wave(o, idx) ==
    IF o.cls = "CRISPNonU" THEN wave_nonu(o, idx) ELSE wave_ind(o, idx)

\* self.wave(sel) for an entry of the slicing state: a slice is no index
\* for array_index_to_world
wave_sel(o, sel) ==
    IF wave_ind(o, 0).sub = NoView THEN wave_ind(o, 0)
    ELSE IF IsSlice(sel) THEN Returned(wave_ind(o, 0).sub, Fail("TypeError"), wave_ind(o, 0).notice)
    ELSE wave_ind(o, sel.start)

\* self.wcs.low_level_wcs._wcs.array_shape: the axis lengths of the file;
\* the sample file has NStokes Stokes parameters and NWvls wavelengths (the
\* selectors of the model address the first AxisLen entries of an axis)
NStokes == 4
wcs_array_shape(o) ==
    [p \in 1..o.naxis |->
        CASE AxisKind(o.naxis, p) = "stokes" -> NStokes
          [] AxisKind(o.naxis, p) = "wave" -> NWvls
          [] OTHER -> AxisLen]

RECURSIVE Pow10(_)
Pow10(n) == IF n = 0 THEN 1 ELSE 10 * Pow10(n - 1)
\* np.round(q, decimals=2): to the nearest 10^-2, a tie to the even digit
Round2(q) ==
    IF q.exp >= -2 THEN q
    ELSE LET unit == Pow10(-2 - q.exp)
             lo == q.val \div unit
             rest == q.val - lo * unit
         IN Qty(IF 2 * rest > unit \/ (2 * rest = unit /\ lo % 2 = 1) THEN lo + 1 ELSE lo, -2, q.unit)

\* intensity_idx with position 1 taken whatever the parent
intensity_idx_pos1(o) ==
    IF o.bare \/ Len(o.ind) < 2 THEN o.ind[1] ELSE o.ind[2]

\* lines 449-454 / 1909-1914: the entry of the slicing state taken for the
\* wavelength index
intensity_idx(o) ==
    IF o.bare THEN o.ind[1]
    ELSE IF o.naxis = 4 THEN o.ind[2]
    ELSE o.ind[1]

\* how intensity_map ends: the exception, the wavelength and the delta of
\* the title (in units of 10^exp Angstrom of the wavelength), the view wave
\* evaluated for the wavelength, the figures made and the data left
Mapped(e, w, dw, t, f, a) == [err |-> e, wvl |-> w, del_wvl |-> dw, sub |-> t, figs |-> f, data |-> a]

\* imshow(data) on the axes of the frame: an image is two-dimensional, or
\* in the pixel frame three-dimensional with 3 or 4 colour channels
IsImage(o, frame) ==
    \/ ndim(o) = 2
    \/ frame = "pix" /\ ndim(o) = 3 /\ array_shape(Own(o))[3] \in {3, 4}

\* a - b for two quantities of at least two decimals, in units of 10^-2
Hundredths(q) == q.val * Pow10(q.exp + 2)
Minus(a, b) == Qty(Hundredths(a) - Hundredths(b), -2, "")

\* line 456: the index the delta is taken against,
\* self.wcs.low_level_wcs._wcs.array_shape[0]//2
intensity_ref(o) == wcs_array_shape(o)[1] \div 2
\* line 500: the index stokes_map takes it against,
\* self.wcs.low_level_wcs._wcs.array_shape[1]//2
stokes_map_ref(o) == wcs_array_shape(o)[2] \div 2

\* CRISP.intensity_map (lines 436-484): the wavelength and the delta of the
\* title, then the figure; negative data only sets vmin = 0
intensity_map_crisp(o, frame) ==
    IF ~o.hasInd THEN Mapped("AttributeError", <<>>, <<>>, NoView, 0, o.data)
    ELSE LET w == wave_sel(o, intensity_idx(o))
             ref == wave_ind(o, intensity_ref(o))
         IN IF w.err # "" THEN Mapped(w.err, <<>>, <<>>, w.sub, 0, o.data)
            ELSE IF ref.err # "" THEN Mapped(ref.err, <<>>, <<>>, w.sub, 0, o.data)
            ELSE Mapped(IF IsImage(o, frame) THEN "" ELSE "TypeError",
                        <<Round2(w.val[1])>>,
                        <<Round2(Minus(Round2(w.val[1]), ref.val[1]))>>,
                        w.sub, 1, o.data)

\* CRISPWideband.intensity_map (lines 1443-1483): the figure, then a float
\* copy of the data is masked; np.float exists only in older numpy builds
intensity_map_wideband(o, frame, npfloat) ==
    IF ~npfloat THEN Mapped("AttributeError", <<>>, <<>>, NoView, 1, o.data)
    ELSE Mapped(IF IsImage(o, frame) THEN "" ELSE "TypeError", <<>>, <<>>, NoView, 1, o.data)

\* np.median(self.wvls) of the sorted table
wvls_median ==
    IF NWvls % 2 = 1 THEN wvls[NWvls \div 2 + 1]
    ELSE Qty(5 * (wvls[NWvls \div 2].val + wvls[NWvls \div 2 + 1].val), -2, "Angstrom")

\* CRISPNonU.intensity_map (lines 1896-1943): the wavelength from the
\* table, then the figure, then data[data < 0] = np.nan on self.data itself
intensity_map_nonu(o, frame) ==
    IF ~o.hasInd THEN Mapped("AttributeError", <<>>, <<>>, NoView, 0, o.data)
    ELSE LET w == wvls_item(intensity_idx(o))
         IN IF w.err # "" THEN Mapped(w.err, <<>>, <<>>, NoView, 0, o.data)
            ELSE Mapped(IF IsImage(o, frame) THEN "" ELSE "TypeError",
                        [i \in 1..Len(w.val) |-> Round2(w.val[i])],
                        [i \in 1..Len(w.val) |-> Round2(Minus(Round2(w.val[i]), wvls_median))],
                        NoView, 1, Masked(o.data))

\* self.intensity_map(frame) of the class of o
intensity_map(o, frame, npfloat) ==
    IF o.cls = "CRISPNonU" THEN intensity_map_nonu(o, frame)
    ELSE IF o.cls = "CRISPWideband" THEN intensity_map_wideband(o, frame, npfloat)
    ELSE intensity_map_crisp(o, frame)

LoadMap(cls, n, d) ==
    /\ Idle
    /\ obs' = MapCube(cls, n, d)
    /\ call' = NoCall

\* obs[k] with the integer kept as the slicing state
SliceInt(k) ==
    /\ Idle
    /\ ~obs.hasInd
    /\ obs' = [obs EXCEPT !.hasInd = TRUE, !.ind = <<Idx(k)>>, !.bare = TRUE]
    /\ call' = NoCall

\* the indices handed to wave: WaveInputs and the first index beyond the
\* table of sampled wavelengths
WaveArgs == WaveInputs \cup {NWvls}

\* self.wave(idx)
SelfWave(idx) ==
    /\ Idle
    /\ call' = [op |-> "wave", args |-> <<idx>>, src |-> <<>>, res |-> self_wave(obs, idx)]
    /\ UNCHANGED obs

\* self.intensity_map(frame); the data is masked in place when the method
\* does so
IntensityMap(frame, npfloat) ==
    /\ Idle
    /\ call' = [op |-> "intensity_map", args |-> <<frame>>, src |-> <<>>,
                res |-> intensity_map(obs, frame, npfloat), data0 |-> obs.data]
    /\ obs' = [obs EXCEPT !.data = intensity_map(obs, frame, npfloat).data]

InitMap ==
    /\ obs \in {MapCube(cls, n, d) : cls \in MapClasses, n \in 1..MaxAxes, d \in FileData}
    /\ call = NoCall

NextMap ==
    \/ \E cls \in MapClasses, n \in 1..MaxAxes, d \in FileData : LoadMap(cls, n, d)
    \/ Slice
    \/ \E k \in 0..(AxisLen - 1) : SliceInt(k)
    \/ \E idx \in WaveArgs : SelfWave(idx)
    \/ \E frame \in Frames, npfloat \in BOOLEAN : IntensityMap(frame, npfloat)
    \/ Return

SpecMap == InitMap /\ [][NextMap]_vars

(***************************************************************************)
(* C21                                                                     *)
(***************************************************************************)
\* C21: wave(idx) of CRISPNonU is entry idx of the table of sampled
\* wavelengths, at every data rank and for every slicing state: it
\* evaluates no view of the transform and raises neither the IndexError of
\* a missing spectral axis nor NotImplementedError; only an index beyond
\* the table fails, in the table lookup.
C21_NonUWaveFromTable ==
    (IsWave /\ obs.cls = "CRISPNonU") =>
        /\ call.res.sub = NoView
        /\ call.res.err \notin {"IndexError", "NotImplementedError"}
        /\ call.args[1] < NWvls => Out(call.res) = Ok(<<wvls[call.args[1] + 1]>>)
        /\ call.res.err # "" => call.args[1] >= NWvls
        /\ \A n \in 1..MaxAxes : self_wave(MapCube("CRISPNonU", n, obs.data), call.args[1]) = call.res

C21_Witness ==
    /\ IsWave /\ obs.cls = "CRISPNonU" /\ Rank(obs) = 2 /\ ~obs.hasInd
    /\ call.args = <<5>>
    /\ call.res.val = <<Qty(85420 + 25, -1, "Angstrom")>>
    /\ wave(obs, 5).err = "IndexError"

(***************************************************************************)
(* C26, C27, C30                                                           *)
(***************************************************************************)
\* an intensity_map call of CRISP that returned, the figure shown with its
\* title
TitleOfMap == call.op = "intensity_map" /\ obs.cls = "CRISP" /\ call.res.err = ""

\* C26: the delta of the title of intensity_map is the wavelength shown
\* minus the wavelength at the middle index, length // 2, of the parent's
\* wavelength axis, for parents of 3 and of 4 axes; for 4 axes that is the
\* index stokes_map takes.
C26_DeltaFromMiddleWavelength ==
    (TitleOfMap /\ obs.naxis \in {3, 4}) =>
        /\ intensity_ref(obs) = NWvls \div 2
        /\ call.res.del_wvl = <<Minus(call.res.wvl[1], WaveAngstrom(NWvls \div 2))>>
        /\ obs.naxis = 4 => intensity_ref(obs) = stokes_map_ref(obs)

\* the entry of the slicing state C27 names: the bare integer itself,
\* position 1 for a parent of 4 axes, position 0 otherwise
NamedSelector(o) ==
    IF o.bare THEN o.ind[1]
    ELSE IF o.naxis = 4 THEN o.ind[2]
    ELSE o.ind[1]

\* C27: the wavelength of the title of intensity_map is the parent's
\* wavelength at the index held by the named entry of the slicing state,
\* which is the selector of the wavelength axis; wave takes the index on the
\* full wavelength axis, with every other axis at 0.
C27_WavelengthAtSelector ==
    TitleOfMap =>
        /\ ~IsSlice(NamedSelector(obs))
        /\ obs.naxis \in {3, 4}
        /\ NamedSelector(obs) = SelWave(obs)
        /\ call.res.wvl = <<WaveAngstrom(NamedSelector(obs).start)>>
        /\ call.res.sub = View(obs.naxis, [p \in 1..obs.naxis |->
                                             IF p = PosOf(obs.naxis, "wave") THEN FullSel ELSE Idx(0)])

C27_Witness ==
    /\ TitleOfMap /\ obs.naxis = 3 /\ ~obs.bare /\ ndim(obs) = 2
    /\ obs.ind = <<Idx(1), Rng(1, AxisLen), FullSel>>
    /\ call.res.err = ""
    /\ call.res.wvl = <<WaveAngstrom(1)>>

MaxMembers == 3

SeqClasses == {"CRISPSequence", "CRISPWidebandSequence", "CRISPNonUSequence"}

\* the class whose instances the constructor of each sequence class builds
MemberClass(cls) ==
    IF cls = "CRISPWidebandSequence" THEN "CRISPWideband"
    ELSE IF cls = "CRISPNonUSequence" THEN "CRISPNonU"
    ELSE "CRISP"

\* the file dictionaries: one entry per file, the same file may come twice
SeqFileNames == {"a.fits", "b.fits"}
SeqFiles == UNION {[1..n -> SeqFileNames] : n \in 0..MaxMembers}

\* __init__(self, files): self.list = [<member class>(**f) for f in files]
CRISPSequence_init(cls, files) ==
    [cls |-> cls,
     list |-> [k \in 1..Len(files) |-> [cls |-> MemberClass(cls), file |-> files[k]]]]

\* the argument idx: a string or an integer
IdxStr(str) == [isint |-> FALSE, str |-> str, k |-> 0]
IdxInt(k) == [isint |-> TRUE, str |-> "", k |-> k]
\* idx == "all"
IsAll(idx) == ~idx.isint /\ idx.str = "all"

\* self.list[idx] of a Python list: position idx, counted from the end when
\* idx is negative; the result names the member by its position from 0
list_item(list, idx) ==
    IF ~idx.isint THEN [err |-> "TypeError", pos |-> 0]
    ELSE IF idx.k >= 0 /\ idx.k < Len(list) THEN [err |-> "", pos |-> idx.k]
    ELSE IF idx.k < 0 /\ idx.k >= -Len(list) THEN [err |-> "", pos |-> Len(list) + idx.k]
    ELSE [err |-> "IndexError", pos |-> 0]

SeqOps == {"plot_spectrum", "plot_stokes", "intensity_map", "stokes_map"}

\* the arguments of a sequence method other than idx, by parameter name
SeqUnits == {"None", "nm"}
SeqStokes == {"I", "all"}
SeqNorms == {"None", "log"}
SeqArgs(op) ==
    IF op = "plot_spectrum" THEN [unit : SeqUnits, air : BOOLEAN, d : BOOLEAN]
    ELSE IF op = "plot_stokes" THEN [stokes : SeqStokes, unit : SeqUnits, air : BOOLEAN, d : BOOLEAN]
    ELSE IF op = "intensity_map" THEN [frame : Frames, norm : SeqNorms]
    ELSE [stokes : SeqStokes, frame : Frames]

\* the member call with every optional argument left at its default
member_args_default(op, a) ==
    IF op = "plot_spectrum" THEN [unit |-> "None", air |-> FALSE, d |-> FALSE]
    ELSE IF op = "plot_stokes" THEN [stokes |-> a.stokes, unit |-> "None", air |-> FALSE, d |-> FALSE]
    ELSE IF op = "intensity_map" THEN [frame |-> "None", norm |-> "None"]
    ELSE [stokes |-> a.stokes, frame |-> "None"]

\* the arguments of the member call, as each method writes them:
\* f.plot_spectrum(unit=unit, air=air, d=d), f.plot_stokes(stokes, unit=unit,
\* air=air, d=d), f.intensity_map(frame=frame, norm=norm),
\* f.stokes_map(stokes, frame=frame)
member_args(op, a) ==
    IF op = "plot_spectrum" THEN [unit |-> a.unit, air |-> a.air, d |-> a.d]
    ELSE IF op = "plot_stokes" THEN [stokes |-> a.stokes, unit |-> a.unit, air |-> a.air, d |-> a.d]
    ELSE IF op = "intensity_map" THEN [frame |-> a.frame, norm |-> a.norm]
    ELSE [stokes |-> a.stokes, frame |-> a.frame]

\* one member call: the member at position pos (from 0) is asked for op
Invoked(list, pos, op, a) ==
    [member |-> pos, cls |-> list[pos + 1].cls, op |-> op, args |-> member_args(op, a)]

\* a sequence method in progress: pc is "loop" inside the for loop, "done"
\* after a normal return, "raised" when an exception leaves the method
SeqCallRec(op, idx, a, pc, i, log, err) ==
    [op |-> op, args |-> a, src |-> <<>>, res |-> Raised(err),
     idx |-> idx, pc |-> pc, i |-> i, log |-> log]

\* the values of idx: "all", another string, integers inside and outside the
\* list in both directions
SeqIdx == {IdxStr("all"), IdxStr("first")} \cup {IdxInt(k) : k \in (-(MaxMembers + 1))..MaxMembers}

NewSeq(cls, files) ==
    /\ Idle
    /\ obs' = CRISPSequence_init(cls, files)
    /\ call' = NoCall

\* <sequence>.<op>(idx, ...) up to the first member call of the loop:
\* if idx != "all": self.list[idx].<op>(...) else: for f in self.list: ...
\* The member's method returns or raises.
SeqCall(op, idx, a, raises) ==
    /\ Idle
    /\ UNCHANGED obs
    /\ IF ~IsAll(idx)
       THEN IF list_item(obs.list, idx).err # ""
            THEN /\ ~raises
                 /\ call' = SeqCallRec(op, idx, a, "raised", 0, <<>>, list_item(obs.list, idx).err)
            ELSE call' = SeqCallRec(op, idx, a, IF raises THEN "raised" ELSE "done", 0,
                                    <<Invoked(obs.list, list_item(obs.list, idx).pos, op, a)>>,
                                    IF raises THEN "member" ELSE "")
       ELSE /\ ~raises
            /\ call' = SeqCallRec(op, idx, a, "loop", 0, <<>>, "")

\* one turn of `for f in self.list: f.<op>(...)`: the next member is called,
\* or the list is exhausted and the method returns
SeqStep(raises) ==
    /\ call.op \in SeqOps
    /\ call.pc = "loop"
    /\ UNCHANGED obs
    /\ IF call.i < Len(obs.list)
       THEN call' = [call EXCEPT !.log = Append(@, Invoked(obs.list, call.i, call.op, call.args)),
                                 !.i = IF raises THEN @ ELSE @ + 1,
                                 !.pc = IF raises THEN "raised" ELSE "loop",
                                 !.res = Raised(IF raises THEN "member" ELSE "")]
       ELSE /\ ~raises
            /\ call' = [call EXCEPT !.pc = "done"]

\* the method has returned or raised: control is back with the caller
SeqReturn ==
    /\ call.op \in SeqOps
    /\ call.pc \in {"done", "raised"}
    /\ call' = NoCall
    /\ UNCHANGED obs

InitSeq ==
    /\ obs \in {CRISPSequence_init(cls, files) : cls \in SeqClasses, files \in SeqFiles}
    /\ call = NoCall

NextSeq ==
    \/ \E cls \in SeqClasses, files \in SeqFiles : NewSeq(cls, files)
    \/ \E op \in SeqOps, idx \in SeqIdx, raises \in BOOLEAN : \E a \in SeqArgs(op) : SeqCall(op, idx, a, raises)
    \/ \E raises \in BOOLEAN : SeqStep(raises)
    \/ SeqReturn

SpecSeq == InitSeq /\ [][NextSeq]_vars

(***************************************************************************)
(* C22: sequence methods reach the members they name                       *)
(***************************************************************************)
InSeqCall == call.op \in SeqOps

\* the remaining arguments of the sequence call, as the member must see them
SameArgs(e) == e.op = call.op /\ e.args = call.args /\ e.cls = MemberClass(obs.cls)

\* C22: each of plot_spectrum, plot_stokes, intensity_map and stokes_map of a
\* sequence, called with an integer idx, makes one call of the same operation
\* with the same remaining arguments on the member at position idx of the
\* list (counted from the end for a negative idx) and on no other; called
\* with "all" it calls the members one after the other in list order, each
\* once, and has called every member when it returns.
C22_DispatchToMembers ==
    InSeqCall =>
        /\ \A k \in 1..Len(call.log) : SameArgs(call.log[k])
        /\ call.idx.isint =>
              /\ Len(call.log) <= 1
              /\ \A k \in 1..Len(call.log) :
                    /\ call.log[k].member \in 0..(Len(obs.list) - 1)
                    /\ call.log[k].member =
                          IF call.idx.k >= 0 THEN call.idx.k ELSE Len(obs.list) + call.idx.k
              /\ call.pc = "done" => Len(call.log) = 1
        /\ call.idx = IdxStr("all") =>
              /\ \A k \in 1..Len(call.log) : call.log[k].member = k - 1
              /\ Len(call.log) <= Len(obs.list)
              /\ call.pc = "done" => Len(call.log) = Len(obs.list)
        /\ (~call.idx.isint /\ call.idx # IdxStr("all")) => call.log = <<>> /\ call.pc = "raised"

\* witness: "all" on a sequence of three members has returned after calling
\* each of them in order with a non-default argument
C22_Witness ==
    /\ InSeqCall /\ call.op = "intensity_map" /\ call.idx = IdxStr("all") /\ call.pc = "done"
    /\ Len(obs.list) = 3
    /\ call.args.norm = "log"
    /\ [k \in 1..Len(call.log) |-> call.log[k].member] = <<0, 1, 2>>

====
